---- MODULE Spec2Model ----
(***************************************************************************)
(* A model of the OneDrive / Google Drive synchronisation service:         *)
(*   - SyncEngine.sync_job and its two direction passes (sync_engine.py),  *)
(*   - the status channel (websocket.py) and the /ws endpoint (main.py),   *)
(*   - TokenManager (token_manager.py) and get_valid_token (folders.py),   *)
(*   - disconnect_account (accounts.py),                                   *)
(*   - the retry-decorated transfer operations (file_operations.py).       *)
(*                                                                         *)
(* sync_job is a coroutine.  Its awaits on send_sync_status are the points *)
(* where another run (another coroutine, thread or worker process on the  *)
(* same database) can take steps, so a run is split into the code between  *)
(* two awaits; everything between two awaits is one action.                *)
(***************************************************************************)
EXTENDS Integers, Sequences, FiniteSets, TLC

VARIABLES
    now,                  \* datetime.utcnow(), in whole ticks
    encryption_key_set,   \* os.getenv("ENCRYPTION_KEY") is set
    jobs,                 \* table sync_jobs: id -> row
    accounts,             \* table connected_accounts: id -> row
    history,              \* table sync_history, in insertion order
    runs,                 \* the invocations of sync_job, in invocation order
    events,               \* the messages send_sync_status has published
    active_connections,   \* ConnectionManager.active_connections
    delivered,            \* per websocket, the messages send_json has sent
    onedrive_files,       \* content of the job's OneDrive folder
    gdrive_files,         \* content of the job's Google Drive folder
    calls,                \* the calls of get_valid_token, with their outcome
    xfer,                 \* one call of a FileOperations transfer operation
    sends,                \* per run, its send_personal_message in progress
    websockets,           \* per WebSocket object, how far its life has got
    response,             \* what the last request to a route was answered
    auth_flows,           \* AzureOAuth._auth_flows of the account routes
    cli,                  \* one invocation of the command line (src/main.py)
    registry_calls,       \* the calls of ConnectionManager.connect and disconnect
    ws_handlers           \* per websocket, the run of websocket_endpoint for it

\* the state of the routes, of the command line and of the /ws handlers and
\* the log of the registry's calls, which the engine, the channel and the
\* transfer operations leave alone
others == <<response, auth_flows, cli, registry_calls, ws_handlers>>

vars == <<now, encryption_key_set, jobs, accounts, history, runs, events,
          active_connections, delivered, onedrive_files, gdrive_files,
          calls, xfer, sends, websockets, others>>

(***************************************************************************)
(* Bounds of the model.                                                    *)
(***************************************************************************)
MaxRuns == 2          \* invocations of sync_job
MaxTime == 1          \* the clock stops here
TokenLifetime == 0    \* expires_in of the tokens the providers grant (connected at time 0)
MaxCalls == 3         \* calls of get_valid_token
MaxFileSize == 3      \* largest file of a transfer, in bytes of the model
CHUNK_SIZE == 2       \* FileOperations.CHUNK_SIZE (10 MB), in bytes of the model
MaxJobs == 2          \* rows of sync_jobs
MaxRegistryCalls == 4 \* calls of ConnectionManager.connect and disconnect

None == "None"
NoTime == <<>>        \* a NULL DateTime column; a set one is <<t>>

UserIds == {"1", "2"}             \* users.id, an Integer column
Directions == {"bidirectional", "onedrive_to_gdrive", "gdrive_to_onedrive"}
JobIds == {1, 2}                  \* the engine is called with either; Init has job 1
Sockets == {"ws1", "ws2"}

UserKeys == UserIds \cup {"default"}   \* the keys active_connections can hold

(***************************************************************************)
(* TokenManager.  A manager's key is ENCRYPTION_KEY when the environment   *)
(* sets it; otherwise every instance generates its own key.  The instances *)
(* are the global one of token_manager.py (used by sync_job and            *)
(* get_valid_token) and the module-level ones of the account and auth      *)
(* routes (which store the tokens).  A ciphertext is the pair of the key   *)
(* it was made with and the plaintext; only the same key opens it.         *)
(***************************************************************************)
NoneCt == [key |-> None, pt |-> None]

ManagerKey(instance) == IF encryption_key_set THEN "ENCRYPTION_KEY" ELSE instance

encrypt_token(instance, token) ==
    IF token = None \/ token = ""
    THEN NoneCt
    ELSE [key |-> ManagerKey(instance), pt |-> token]

decrypt_token(instance, encrypted_token) ==
    IF encrypted_token = NoneCt
    THEN None
    ELSE IF encrypted_token.key = ManagerKey(instance)
         THEN encrypted_token.pt
         ELSE None          \* Fernet raises InvalidToken; caught, None returned

(***************************************************************************)
(* Rows of the database.                                                   *)
(***************************************************************************)
ConnectedAccount(user_id, platform, access_token, refresh_token, t, expires_in) ==
    [user_id |-> user_id,
     platform |-> platform,
     access_token_encrypted |-> encrypt_token("accounts", access_token),
     refresh_token_encrypted |-> encrypt_token("accounts", refresh_token),
     token_expires_at |-> <<t + expires_in>>]

SyncJob(user_id, onedrive_account_id, gdrive_account_id, direction, enabled) ==
    [user_id |-> user_id,
     onedrive_account_id |-> onedrive_account_id,
     gdrive_account_id |-> gdrive_account_id,
     direction |-> direction,
     enabled |-> enabled,
     last_sync |-> NoTime]

SyncHistory(sync_job_id, t) ==
    [sync_job_id |-> sync_job_id,
     status |-> "in_progress",
     files_synced |-> 0,
     bytes_transferred |-> 0,
     started_at |-> <<t>>,
     completed_at |-> NoTime,
     error_message |-> None]

(***************************************************************************)
(* The status channel: ConnectionManager and send_sync_status.             *)
(***************************************************************************)
RECURSIVE SendEach(_, _, _, _)
\* the loop of send_personal_message: send_json on every connection of the
\* list in turn; a send_json that raises is swallowed and the loop goes on.
SendEach(connections, message, raising, d) ==
    IF connections = <<>>
    THEN d
    ELSE LET c == Head(connections) IN
         SendEach(Tail(connections), message, raising,
                  IF c \in raising THEN d
                  ELSE [d EXCEPT ![c] = Append(@, message)])

send_personal_message(message, user_id, raising, d) ==
    IF user_id \in DOMAIN active_connections
    THEN SendEach(active_connections[user_id], message, raising, d)
    ELSE d

\* The message send_sync_status builds.  `run` is not part of the message: it
\* records which invocation of sync_job published it.
StatusMessage(run, user_id, job_id, status) ==
    [type |-> "sync_status", run |-> run, user_id |-> user_id,
     job_id |-> job_id, status |-> status]

\* ConnectionManager.connect: append under the key, creating it if absent.
connect(websocket, user_id) ==
    IF user_id \in DOMAIN active_connections
    THEN [active_connections EXCEPT ![user_id] = Append(@, websocket)]
    ELSE [k \in DOMAIN active_connections \cup {user_id} |->
             IF k = user_id THEN <<websocket>> ELSE active_connections[k]]

RECURSIVE RemoveFirst(_, _)
\* list.remove: drops the first occurrence
RemoveFirst(list, x) ==
    IF list = <<>> THEN <<>>
    ELSE IF Head(list) = x THEN Tail(list)
    ELSE <<Head(list)>> \o RemoveFirst(Tail(list), x)

\* a variant of disconnect that keeps the key of a list it has emptied
disconnect_KeepsEmptyList(websocket, user_id) ==
    IF user_id \in DOMAIN active_connections
    THEN [active_connections EXCEPT ![user_id] = RemoveFirst(@, websocket)]
    ELSE active_connections

\* ConnectionManager.disconnect: remove, and drop the key of an empty list.
disconnect(websocket, user_id) ==
    IF user_id \in DOMAIN active_connections
    THEN LET rest == RemoveFirst(active_connections[user_id], websocket) IN
         IF rest = <<>>
         THEN [k \in DOMAIN active_connections \ {user_id} |-> active_connections[k]]
         ELSE [active_connections EXCEPT ![user_id] = rest]
    ELSE active_connections

Registered(websocket) ==
    \E k \in DOMAIN active_connections :
        \E i \in 1..Len(active_connections[k]) : active_connections[k][i] = websocket

\* the websockets a send can reach, and so the ones whose send_json can raise
Connected == {w \in Sockets : Registered(w)}

\* The key the /ws endpoint registers every websocket under.
EndpointUserId == "default"

\* /ws: the websocket is accepted, carries a session cookie and is handed to
\* manager.connect, which calls websocket.accept() a second time.  What a
\* second accept does is the ASGI toolkit's affair: when it raises, the
\* handler ends there (it catches WebSocketDisconnect only) and the websocket
\* is never registered; when it passes, the websocket is registered.
websocket_endpoint_connect(websocket, accepted) ==
    /\ websockets[websocket] = "new"
    /\ active_connections' = IF accepted THEN connect(websocket, EndpointUserId)
                             ELSE active_connections
    /\ websockets' = [websockets EXCEPT ![websocket] =
                         IF accepted THEN "open" ELSE "closed"]
    /\ UNCHANGED <<now, encryption_key_set, jobs, accounts, history, runs, events,
                   delivered, onedrive_files, gdrive_files, calls, xfer, sends, others>>

\* /ws: receive_text raises WebSocketDisconnect and the handler deregisters.
websocket_endpoint_disconnect(websocket) ==
    /\ Registered(websocket)
    /\ active_connections' = disconnect(websocket, EndpointUserId)
    /\ websockets' = [websockets EXCEPT ![websocket] = "closed"]
    /\ UNCHANGED <<now, encryption_key_set, jobs, accounts, history, runs, events,
                   delivered, onedrive_files, gdrive_files, calls, xfer, sends, others>>

(***************************************************************************)
(* SyncEngine.                                                             *)
(***************************************************************************)
\* a variant of the first pass that copies what the target lacks
_sync_onedrive_to_gdrive_Copying(onedrive_token, gdrive_token, source, target) ==
    [files |-> Cardinality(source \ target), bytes |-> Cardinality(source \ target),
     onedrive_files |-> source, gdrive_files |-> target \cup source]

\* The two direction passes.  Both are placeholders: they read and write
\* neither store and report no file and no byte.
_sync_onedrive_to_gdrive(onedrive_token, gdrive_token, source, target) ==
    [files |-> 0, bytes |-> 0, onedrive_files |-> source, gdrive_files |-> target]

_sync_gdrive_to_onedrive(gdrive_token, onedrive_token, source, target) ==
    [files |-> 0, bytes |-> 0, gdrive_files |-> source, onedrive_files |-> target]

\* `job.direction in [...]`, the guards of the two passes
RunsOneDriveToGDrive(direction) == direction \in {"bidirectional", "onedrive_to_gdrive"}

\* a variant of the second guard that forgets the bidirectional jobs
RunsGDriveToOneDrive_OneWayOnly(direction) == direction = "gdrive_to_onedrive"

RunsGDriveToOneDrive(direction) == direction \in {"bidirectional", "gdrive_to_onedrive"}

\* `if not onedrive_account or not gdrive_account`
AccountsFound(job) ==
    /\ job.onedrive_account_id \in DOMAIN accounts
    /\ job.gdrive_account_id \in DOMAIN accounts

\* a variant of the except clause that forgets completed_at
FailHistory_NoCompletedAt(h, e, t) ==
    [h EXCEPT !.status = "failed", !.error_message = e]

\* the except clause's update of the run's record
FailHistory(h, e, t) ==
    [h EXCEPT !.status = "failed", !.error_message = e, !.completed_at = <<t>>]

\* the update of the run's record after the passes
SucceedHistory(h, files_synced, bytes_transferred, t) ==
    [h EXCEPT !.status = "success", !.files_synced = files_synced,
              !.bytes_transferred = bytes_transferred, !.completed_at = <<t>>]

\* a variant of the guard that forgets the enabled flag
JobRuns_IgnoresEnabled(job_id) == job_id \in DOMAIN jobs

\* `if not job or not job.enabled: return`
JobRuns(job_id) == job_id \in DOMAIN jobs /\ jobs[job_id].enabled

\* the status of the first event, and of the last one on either path
StartStatus == "in_progress"

CompletedStatus == "completed"

\* a variant that publishes the completion status from the except clause
FailedStatus_Completed == "completed"

FailedStatus == "failed"

NewRun(job_id, pc, h) ==
    [job_id |-> job_id, pc |-> pc, history |-> h,
     onedrive_token |-> None, gdrive_token |-> None,
     onedrive_expires_at |-> NoTime, gdrive_expires_at |-> NoTime,
     tokens_at |-> NoTime, passes |-> <<>>, error |-> None,
     cancelled |-> <<>>]      \* <<pc>> once the run's task was cancelled at pc

\* the event a step has just published
LastEvent == events'[Len(events')]

\* `await send_sync_status(...)` with the loop of send_personal_message run in
\* one piece: the event the step published, if any, is sent on every
\* connection of its user, and the registry is as it was
SendInOnePiece(raising) ==
    /\ delivered' = IF events' = events
                    THEN delivered
                    ELSE send_personal_message(LastEvent, LastEvent.user_id,
                                               raising, delivered)
    /\ UNCHANGED <<active_connections, sends, websockets>>

\* sync_job, from the call to the first await: the job is looked up, the
\* run's record is inserted and committed, the start event is published.
sync_job_begin_run(job_id) ==
    /\ Len(runs) < MaxRuns
    /\ IF ~JobRuns(job_id)
       THEN /\ runs' = Append(runs, NewRun(job_id, "returned", 0))
            /\ UNCHANGED <<history, events>>
       ELSE LET message == StatusMessage(Len(runs) + 1, jobs[job_id].user_id,
                                         job_id, StartStatus) IN
            /\ history' = Append(history, SyncHistory(job_id, now))
            /\ runs' = Append(runs, NewRun(job_id, "await_start", Len(history) + 1))
            /\ events' = Append(events, message)
    /\ UNCHANGED <<now, encryption_key_set, jobs, accounts,
                   onedrive_files, gdrive_files, calls, xfer, others>>

sync_job_begin(job_id, raising) ==
    /\ sync_job_begin_run(job_id)
    /\ SendInOnePiece(raising)

\* sync_job, from the first await to the second: the accounts, the tokens,
\* the passes, the record and the job are updated and committed and the
\* completion event is published; or an exception is raised, and the except
\* clause updates and commits the record and publishes the failure event.
sync_job_resume_run(r) ==
    /\ runs[r].pc = "await_start"
    /\ LET run == runs[r]
           job == jobs[run.job_id]
           h == history[run.history]
       IN
       IF ~AccountsFound(job)
       THEN LET e == "Accounts not found"
                message == StatusMessage(r, job.user_id, run.job_id, FailedStatus)
            IN
            /\ history' = [history EXCEPT ![run.history] = FailHistory(h, e, now)]
            /\ runs' = [runs EXCEPT ![r].pc = "await_failed", ![r].error = e]
            /\ events' = Append(events, message)
            /\ UNCHANGED <<jobs, onedrive_files, gdrive_files>>
       ELSE LET onedrive_account == accounts[job.onedrive_account_id]
                gdrive_account == accounts[job.gdrive_account_id]
                onedrive_token == decrypt_token("global", onedrive_account.access_token_encrypted)
                gdrive_token == decrypt_token("global", gdrive_account.access_token_encrypted)
                first == RunsOneDriveToGDrive(job.direction)
                second == RunsGDriveToOneDrive(job.direction)
                r1 == _sync_onedrive_to_gdrive(onedrive_token, gdrive_token,
                                               onedrive_files, gdrive_files)
                od1 == IF first THEN r1.onedrive_files ELSE onedrive_files
                gd1 == IF first THEN r1.gdrive_files ELSE gdrive_files
                r2 == _sync_gdrive_to_onedrive(gdrive_token, onedrive_token, gd1, od1)
                od2 == IF second THEN r2.onedrive_files ELSE od1
                gd2 == IF second THEN r2.gdrive_files ELSE gd1
                files_synced == (IF first THEN r1.files ELSE 0) + (IF second THEN r2.files ELSE 0)
                bytes_transferred == (IF first THEN r1.bytes ELSE 0) + (IF second THEN r2.bytes ELSE 0)
                message == StatusMessage(r, job.user_id, run.job_id, CompletedStatus)
            IN
            /\ history' = [history EXCEPT ![run.history] =
                              SucceedHistory(h, files_synced, bytes_transferred, now)]
            /\ jobs' = [jobs EXCEPT ![run.job_id].last_sync = <<now>>]
            /\ onedrive_files' = od2
            /\ gdrive_files' = gd2
            /\ runs' = [runs EXCEPT
                  ![r].pc = "await_completed",
                  ![r].onedrive_token = onedrive_token,
                  ![r].gdrive_token = gdrive_token,
                  ![r].onedrive_expires_at = onedrive_account.token_expires_at,
                  ![r].gdrive_expires_at = gdrive_account.token_expires_at,
                  ![r].tokens_at = <<now>>,
                  ![r].passes = (IF first THEN <<"onedrive_to_gdrive">> ELSE <<>>)
                                \o (IF second THEN <<"gdrive_to_onedrive">> ELSE <<>>)]
            /\ events' = Append(events, message)
    /\ UNCHANGED <<now, encryption_key_set, accounts, calls, xfer, others>>

sync_job_resume(r, raising) ==
    /\ sync_job_resume_run(r)
    /\ SendInOnePiece(raising)

\* sync_job, after its last await: it returns, or re-raises the exception.
sync_job_finish(r) ==
    /\ runs[r].pc \in {"await_completed", "await_failed"}
    /\ runs' = [runs EXCEPT ![r].pc =
                   IF runs[r].pc = "await_completed" THEN "returned" ELSE "raised"]
    /\ UNCHANGED <<now, encryption_key_set, jobs, accounts, history, events,
                   active_connections, delivered, onedrive_files, gdrive_files,
                   calls, xfer, sends, websockets, others>>

\* DELETE /accounts/{account_id} by the account's owner
disconnect_account(account_id, user_id) ==
    /\ account_id \in DOMAIN accounts
    /\ accounts[account_id].user_id = user_id
    /\ accounts' = [a \in DOMAIN accounts \ {account_id} |-> accounts[a]]
    /\ UNCHANGED <<now, encryption_key_set, jobs, history, runs, events,
                   active_connections, delivered, onedrive_files, gdrive_files,
                   calls, xfer, sends, websockets, others>>

\* time passes
Tick ==
    /\ now < MaxTime
    /\ now' = now + 1
    /\ UNCHANGED <<encryption_key_set, jobs, accounts, history, runs, events,
                   active_connections, delivered, onedrive_files, gdrive_files,
                   calls, xfer, sends, websockets, others>>

\* no request has been answered yet
NoResponse == [route |-> None, user |-> None, job_id |-> 0, status |-> 0]

\* the command line has not been invoked
NoCli == [pc |-> "none", bidirectional |-> FALSE, source |-> None, target |-> None,
          folder |-> None, accepted |-> FALSE, called |-> None, exit |-> <<>>]

\* websocket_endpoint has not been called for the websocket
NoHandler == [pc |-> "none", cookie |-> FALSE, accepts |-> 0, registered |-> FALSE,
              disconnects |-> 0, ended_by |-> None]

NoXfer == [pc |-> "none", op |-> None, attempt |-> 0, file_size |-> 0,
           done |-> 0, ranges |-> <<>>, errors |-> <<>>, raised |-> None]

\* The state after one user has connected both accounts (the account routes
\* encrypt the tokens) and created one job; update_sync_job may since have
\* set its direction and its enabled flag.
InitDb ==
    /\ now = 0
    /\ encryption_key_set \in BOOLEAN
    /\ accounts = (1 :> ConnectedAccount("1", "onedrive", "at_onedrive", "rt_onedrive", 0, TokenLifetime)
                   @@ 2 :> ConnectedAccount("1", "gdrive", "at_gdrive", "rt_gdrive", 0, TokenLifetime))
    /\ \E direction \in Directions, enabled \in BOOLEAN :
          jobs = (1 :> SyncJob("1", 1, 2, direction, enabled))
    /\ history = <<>>
    /\ onedrive_files = {[name |-> "report.txt", content |-> "h1"]}
    /\ gdrive_files = {}

Init ==
    /\ InitDb
    /\ runs = <<>>
    /\ events = <<>>
    /\ active_connections = <<>>
    /\ delivered = [w \in Sockets |-> <<>>]
    /\ calls = <<>>
    /\ xfer = NoXfer
    /\ sends = <<>>
    /\ websockets = [w \in Sockets |-> "new"]
    /\ response = NoResponse
    /\ auth_flows = <<>>
    /\ cli = NoCli
    /\ registry_calls = <<>>
    /\ ws_handlers = [w \in Sockets |-> NoHandler]

\* one of the initial states, for the operations that read no job
InitOneJob ==
    /\ Init
    /\ jobs[1].direction = "bidirectional"
    /\ jobs[1].enabled

Next ==
    \/ \E job_id \in JobIds, raising \in SUBSET Connected : sync_job_begin(job_id, raising)
    \/ \E r \in 1..Len(runs), raising \in SUBSET Connected : sync_job_resume(r, raising)
    \/ \E r \in 1..Len(runs) : sync_job_finish(r)
    \/ \E a \in DOMAIN accounts, u \in UserIds : disconnect_account(a, u)
    \/ Tick

Spec == Init /\ [][Next]_vars

\* the engine together with the /ws endpoint
NextChannel ==
    \/ Next
    \/ \E w \in Sockets, accepted \in BOOLEAN : websocket_endpoint_connect(w, accepted)
    \/ \E w \in Sockets : websocket_endpoint_disconnect(w)

SpecChannel == Init /\ [][NextChannel]_vars

(***************************************************************************)
(* Properties of sync_job.                                                 *)
(***************************************************************************)
Began(r) == runs[r].history # 0

Finished(r) == runs[r].pc \in {"returned", "raised"}

RunRecord(r) == history[runs[r].history]

RECURSIVE StatusesOf(_, _)
\* the statuses of the events run r published, in publication order
StatusesOf(r, msgs) ==
    IF msgs = <<>> THEN <<>>
    ELSE (IF Head(msgs).run = r THEN <<Head(msgs).status>> ELSE <<>>)
         \o StatusesOf(r, Tail(msgs))

\* C1: at most one run of a job is in flight: no two SyncHistory records of
\* the same job have status 'in_progress' at the same time.
C1_AtMostOneRunInFlight ==
    \A i, j \in 1..Len(history) :
        (i # j /\ history[i].sync_job_id = history[j].sync_job_id)
            => ~(history[i].status = "in_progress" /\ history[j].status = "in_progress")

\* C2: end-to-end propagation: after a run of a bidirectional job that ended
\* 'success', every file of the OneDrive folder is in the Google Drive folder
\* with the same content (and every file of Google Drive is on OneDrive),
\* also when both access tokens were decrypted.
C2_EndToEndPropagation ==
    \A r \in 1..Len(runs) :
        (/\ Began(r)
         /\ runs[r].pc = "returned"
         /\ RunRecord(r).status = "success"
         /\ runs[r].onedrive_token # None
         /\ runs[r].gdrive_token # None
         /\ jobs[runs[r].job_id].direction = "bidirectional")
            => onedrive_files = gdrive_files

\* C3: partial-failure isolation: a failure inside a run does not abort it;
\* when the run has ended, every pass its direction asks for was attempted.
C3_FailureDoesNotAbortRun ==
    \A r \in 1..Len(runs) :
        (Began(r) /\ Finished(r)) =>
            LET direction == jobs[runs[r].job_id].direction
                attempted == {runs[r].passes[i] : i \in 1..Len(runs[r].passes)}
            IN
            /\ runs[r].pc # "raised"
            /\ RunsOneDriveToGDrive(direction) => "onedrive_to_gdrive" \in attempted
            /\ RunsGDriveToOneDrive(direction) => "gdrive_to_onedrive" \in attempted

\* a step of run r failed: an account was missing (the exception it raised is
\* kept in error), or a stored access token could not be decrypted
StepFailed(r) ==
    \/ runs[r].error # None
    \/ /\ runs[r].tokens_at # NoTime
       /\ (runs[r].onedrive_token = None \/ runs[r].gdrive_token = None)

\* C4: no failure is silently dropped: a run in which a step failed ends with
\* its record 'failed' and a non-empty error_message, never 'success'.
C4_NoFailureSilentlyDropped ==
    \A r \in 1..Len(runs) :
        (Began(r) /\ Finished(r) /\ StepFailed(r)) =>
            /\ RunRecord(r).status = "failed"
            /\ RunRecord(r).error_message \notin {None, ""}

\* C5: a run never uses an access token whose stored token_expires_at was
\* already in the past when the run obtained it.
C5_NoExpiredTokenUsed ==
    \A r \in 1..Len(runs) :
        runs[r].tokens_at # NoTime =>
            \A expires_at \in {runs[r].onedrive_expires_at, runs[r].gdrive_expires_at} :
                expires_at = NoTime \/ expires_at[1] >= runs[r].tokens_at[1]

C9_Lifecycle ==
    /\ \A r \in 1..Len(runs) :
          /\ JobRuns(runs[r].job_id) =>
                /\ runs[r].history \in 1..Len(history)
                /\ RunRecord(r).sync_job_id = runs[r].job_id
                /\ \A q \in 1..Len(runs) : q # r => runs[q].history # runs[r].history
          /\ (Began(r) /\ runs[r].pc = "await_start") => RunRecord(r).status = "in_progress"
          /\ (Began(r) /\ Finished(r)) =>
                /\ RunRecord(r).status \in {"success", "failed"}
                /\ RunRecord(r).completed_at # NoTime
    /\ Len(history) = Cardinality({r \in 1..Len(runs) : Began(r)})

C9_TerminalIsFinal ==
    \A i \in 1..Len(history) :
        history[i].status \in {"success", "failed"} =>
            /\ i <= Len(history')
            /\ history'[i].status = history[i].status

\* C9: run-record lifecycle: every run on an existing, enabled job creates
\* exactly one record, 'in_progress' at its start; when sync_job has returned
\* or raised, the record is 'success' or 'failed' with completed_at set; a
\* record that is 'success' or 'failed' never changes its status again.
C9_RunRecordLifecycle == [](C9_Lifecycle) /\ [][C9_TerminalIsFinal]_vars

\* both ways a run can end have happened
C9_Witness ==
    \E r, q \in 1..Len(runs) :
        /\ Began(r) /\ runs[r].pc = "returned" /\ RunRecord(r).status = "success"
        /\ Began(q) /\ runs[q].pc = "raised" /\ RunRecord(q).status = "failed"

\* C10: status-event ordering: the events of a run on an existing, enabled
\* job are one 'in_progress' event first, then exactly one terminal event,
\* 'completed' exactly when the record ends 'success' and 'failed' exactly
\* when it ends 'failed'; nothing is published after the terminal event.
C10_StatusEventOrdering ==
    \A r \in 1..Len(runs) :
        Began(r) =>
            LET published == StatusesOf(r, events) IN
            /\ runs[r].pc = "await_start" => published = <<"in_progress">>
            /\ runs[r].pc \in {"await_completed", "returned"} =>
                  /\ published = <<"in_progress", "completed">>
                  /\ RunRecord(r).status = "success"
            /\ runs[r].pc \in {"await_failed", "raised"} =>
                  /\ published = <<"in_progress", "failed">>
                  /\ RunRecord(r).status = "failed"

\* a completed and a failed run, whose events are interleaved in the log
C10_Witness ==
    \E r, q \in 1..Len(runs) :
        /\ Began(r) /\ runs[r].pc = "returned"
        /\ Began(q) /\ runs[q].pc = "raised"
        /\ Len(events) = 4
        /\ events[2].run # events[1].run

(***************************************************************************)
(* get_valid_token (folders.py) and the providers' refresh_access_token.   *)
(***************************************************************************)
\* `result.get('expires_in', 3600)`
DefaultExpiresIn == 3600

NoResult == [ok |-> FALSE, access_token |-> None, refresh_token |-> None,
             has_expires_in |-> FALSE, expires_in |-> <<>>]

\* AzureOAuth.refresh_access_token: None when the answer holds "error", else
\* the answer: an access token, perhaps a new refresh token, perhaps
\* expires_in (seconds from now).
AzureRefreshResults ==
    {NoResult} \cup
    { [ok |-> TRUE, access_token |-> "at_new", refresh_token |-> rt,
       has_expires_in |-> e # <<>>, expires_in |-> e] :
         rt \in {None, "rt_new"}, e \in {<<>>, <<TokenLifetime>>} }

\* GoogleOAuth.refresh_access_token: None when the refresh raised, else
\* {'access_token': creds.token, 'expires_in': creds.expiry.timestamp() if
\* creds.expiry else None}: the key expires_in is always there; its value is
\* the expiry as seconds since the epoch, or None.
GoogleRefreshResults ==
    {NoResult} \cup
    { [ok |-> TRUE, access_token |-> "at_new", refresh_token |-> None,
       has_expires_in |-> TRUE, expires_in |-> e] :
         e \in {<<>>, <<now + TokenLifetime>>} }

refresh_access_token(platform, refresh_token) ==
    IF refresh_token = None
    THEN {NoResult}            \* the provider has nothing to redeem
    ELSE IF platform = "onedrive" THEN AzureRefreshResults ELSE GoogleRefreshResults

\* `account.token_expires_at and account.token_expires_at < datetime.utcnow()`
TokenExpired(account, t) ==
    account.token_expires_at # NoTime /\ account.token_expires_at[1] < t

\* one call of get_valid_token(account, db); `result` is what the provider
\* answers if it is asked.  The call is recorded with the row before and
\* after it, the token returned and the way it ended.
get_valid_token(account_id, result) ==
    /\ Len(calls) < MaxCalls
    /\ account_id \in DOMAIN accounts
    /\ LET account == accounts[account_id]
           Call(outcome, token, after) ==
               [account_id |-> account_id, at |-> now, before |-> account,
                after |-> after, result |-> result, outcome |-> outcome,
                token |-> token]
       IN
       IF TokenExpired(account, now)
       THEN /\ result \in refresh_access_token(account.platform,
                             decrypt_token("global", account.refresh_token_encrypted))
            /\ IF result.ok
               THEN LET a1 == [account EXCEPT !.access_token_encrypted =
                                  encrypt_token("global", result.access_token)]
                        a2 == IF result.refresh_token # None
                              THEN [a1 EXCEPT !.refresh_token_encrypted =
                                       encrypt_token("global", result.refresh_token)]
                              ELSE a1
                        seconds == IF result.has_expires_in THEN result.expires_in
                                   ELSE <<DefaultExpiresIn>>
                    IN
                    IF seconds = <<>>
                    THEN \* timedelta(seconds=None) raises TypeError before the
                         \* commit: the session's changes are never written
                         /\ calls' = Append(calls, Call("TypeError", None, account))
                         /\ UNCHANGED accounts
                    ELSE LET a3 == [a2 EXCEPT !.token_expires_at = <<now + seconds[1]>>] IN
                         /\ accounts' = [accounts EXCEPT ![account_id] = a3]
                         /\ calls' = Append(calls, Call("returned", result.access_token, a3))
               ELSE /\ calls' = Append(calls, Call("HTTP_401", None, account))
                    /\ UNCHANGED accounts
       ELSE /\ result = NoResult
            /\ calls' = Append(calls,
                  Call("returned", decrypt_token("global", account.access_token_encrypted),
                       account))
            /\ UNCHANGED accounts
    /\ UNCHANGED <<now, encryption_key_set, jobs, history, runs, events,
                   active_connections, delivered, onedrive_files, gdrive_files, xfer,
                   sends, websockets, others>>

NextToken ==
    \/ \E a \in DOMAIN accounts, result \in AzureRefreshResults \cup GoogleRefreshResults :
          get_valid_token(a, result)
    \/ Tick

SpecToken == InitOneJob /\ [][NextToken]_vars

\* C6: get_valid_token: a token that is not expired is returned decrypted and
\* nothing changes; an expired one whose refresh succeeds is replaced: the new
\* encrypted access token and a new token_expires_at are stored and the new
\* access token is returned; when the refresh fails the call raises 401 and
\* the stored tokens and expiry stay as they were.
C6_GetValidToken ==
    \A i \in 1..Len(calls) :
        LET c == calls[i] IN
        /\ ~TokenExpired(c.before, c.at) =>
              /\ c.outcome = "returned"
              /\ c.token = decrypt_token("global", c.before.access_token_encrypted)
              /\ c.after = c.before
        /\ (TokenExpired(c.before, c.at) /\ c.result.ok) =>
              /\ c.outcome = "returned"
              /\ c.token = c.result.access_token
              /\ decrypt_token("global", c.after.access_token_encrypted) = c.token
              /\ c.after.token_expires_at # NoTime
              /\ c.after.token_expires_at # c.before.token_expires_at
        /\ (TokenExpired(c.before, c.at) /\ ~c.result.ok) =>
              /\ c.outcome = "HTTP_401"
              /\ c.after = c.before

(***************************************************************************)
(* FileOperations: the four transfer operations, each under                *)
(*   @retry(stop=stop_after_attempt(5), wait=wait_exponential(...),        *)
(*          reraise=True)                                                  *)
(* The decorator names no `retry=` condition, so an attempt is repeated    *)
(* after any exception, whatever its kind.  xfer follows one call: the     *)
(* attempt number, the bytes moved by the current attempt, the byte ranges  *)
(* its PUT requests named in Content-Range, and the exception each failed  *)
(* attempt ended with.                                                     *)
(***************************************************************************)
Operations == {"download_onedrive_file", "upload_to_gdrive",
               "download_gdrive_file", "upload_to_onedrive"}

IsUpload(op) == op \in {"upload_to_gdrive", "upload_to_onedrive"}

\* what a request can end with, other than an answer the code goes on with:
\* a network error or HTTP 5xx; HTTP 4xx other than 401; HTTP 401
RequestErrors == {"transient", "permanent", "auth"}

MaxAttemptNumber == 5

\* a variant that stops one attempt late
stop_after_attempt_OffByOne(attempt_number) == attempt_number > MaxAttemptNumber

\* stop_after_attempt(5)
stop_after_attempt(attempt_number) == attempt_number >= MaxAttemptNumber

\* the decorator, after an attempt ended with exception e: re-raise it when
\* the stop condition holds, else sleep and call the function again, which
\* starts over (a new download, a new upload session, byte 0)
AttemptFailed(e) ==
    LET errors == Append(xfer.errors, e) IN
    IF stop_after_attempt(xfer.attempt)
    THEN [xfer EXCEPT !.pc = "raised", !.errors = errors, !.raised = e]
    ELSE [xfer EXCEPT !.pc = "request", !.attempt = @ + 1, !.done = 0,
                      !.ranges = <<>>, !.errors = errors]

Unchanged_but_xfer ==
    UNCHANGED <<now, encryption_key_set, jobs, accounts, history, runs, events,
                active_connections, delivered, onedrive_files, gdrive_files, calls,
                sends, websockets, others>>

\* a transfer operation is called
transfer_call(op, file_size) ==
    /\ xfer.pc = "none"
    /\ xfer' = [xfer EXCEPT !.pc = "request", !.op = op, !.attempt = 1,
                            !.file_size = file_size]
    /\ Unchanged_but_xfer

\* the first request of an attempt: the GET of a download, the POST that
\* opens the upload session; raise_for_status raises on 4xx and 5xx
transfer_request(answer) ==
    /\ xfer.pc = "request"
    /\ xfer' = IF answer = "ok"
               THEN [xfer EXCEPT !.pc = "transfer"]
               ELSE AttemptFailed(answer)
    /\ Unchanged_but_xfer

\* a download's loop over iter_content: the next chunk is written, or the
\* stream breaks; after the last chunk the path is returned
download_chunk(answer) ==
    /\ xfer.pc = "transfer"
    /\ ~IsUpload(xfer.op)
    /\ IF xfer.done >= xfer.file_size
       THEN /\ answer = "ok"
            /\ xfer' = [xfer EXCEPT !.pc = "returned"]
       ELSE LET n == IF CHUNK_SIZE < xfer.file_size - xfer.done
                     THEN CHUNK_SIZE ELSE xfer.file_size - xfer.done
            IN
            /\ answer \in {"ok", "transient"}
            /\ xfer' = IF answer = "ok"
                       THEN [xfer EXCEPT !.done = @ + n]
                       ELSE AttemptFailed(answer)
    /\ Unchanged_but_xfer

\* `min(self.CHUNK_SIZE, file_size - uploaded)`
chunk_size(file_size, uploaded) ==
    IF CHUNK_SIZE < file_size - uploaded THEN CHUNK_SIZE ELSE file_size - uploaded

\* a variant of the header whose last byte is one too far
ContentRange_EndExclusive(uploaded, length) ==
    [first |-> uploaded, last |-> uploaded + length]

\* `f"bytes {uploaded}-{uploaded + len(chunk) - 1}/{file_size}"`
ContentRange(uploaded, length) ==
    [first |-> uploaded, last |-> uploaded + length - 1]

\* an upload's `while uploaded < file_size`: the next chunk is read (the file
\* holds file_size bytes, of which `uploaded` have been read, so f.read
\* returns chunk_size bytes) and PUT under its Content-Range.  200/201
\* counts the chunk and returns the metadata; 308 (Google) or 202 (OneDrive)
\* counts the chunk and goes on; a 4xx or 5xx raises; after the loop
\* `raise Exception("Upload failed")`
upload_chunk(answer) ==
    /\ xfer.pc = "transfer"
    /\ IsUpload(xfer.op)
    /\ IF xfer.done >= xfer.file_size
       THEN /\ answer = "ok"
            /\ xfer' = AttemptFailed("Upload failed")
       ELSE LET n == chunk_size(xfer.file_size, xfer.done)
                ranges == Append(xfer.ranges, ContentRange(xfer.done, n))
                failed == AttemptFailed(answer)
            IN
            /\ answer \in {"complete", "incomplete"} \cup RequestErrors
            /\ xfer' = CASE answer = "complete" ->
                              [xfer EXCEPT !.pc = "returned", !.done = @ + n,
                                           !.ranges = ranges]
                         [] answer = "incomplete" ->
                              [xfer EXCEPT !.done = @ + n, !.ranges = ranges]
                         [] OTHER ->
                              IF failed.pc = "raised"
                              THEN [failed EXCEPT !.ranges = ranges]
                              ELSE failed
    /\ Unchanged_but_xfer

NextXfer ==
    \/ \E op \in Operations, file_size \in 0..MaxFileSize : transfer_call(op, file_size)
    \/ \E answer \in {"ok"} \cup RequestErrors : transfer_request(answer)
    \/ \E answer \in {"ok", "transient"} : download_chunk(answer)
    \/ \E answer \in {"ok", "complete", "incomplete"} \cup RequestErrors : upload_chunk(answer)

InitXfer == InitOneJob /\ encryption_key_set = TRUE

SpecXfer == InitXfer /\ [][NextXfer]_vars

\* C7: bounded retry: a transfer operation is attempted at most 5 times; when
\* every attempt failed (with a transient error or any other) the call ends
\* after the 5th attempt by raising the error of that last attempt.
C7_BoundedRetry ==
    /\ xfer.attempt <= MaxAttemptNumber
    /\ Len(xfer.errors) <= MaxAttemptNumber
    /\ xfer.pc = "raised" <=> Len(xfer.errors) = MaxAttemptNumber
    /\ xfer.pc = "raised" =>
          /\ xfer.attempt = MaxAttemptNumber
          /\ xfer.raised = xfer.errors[MaxAttemptNumber]

\* every attempt of a call failed with a transient error, the last one in
\* the middle of the transfer
C7_Witness ==
    /\ xfer.pc = "raised"
    /\ \A k \in 1..Len(xfer.errors) : xfer.errors[k] = "transient"
    /\ xfer.raised = "transient"
    /\ xfer.done > 0

\* C8: a permanent or auth error is not retried: the attempt that ends with
\* one is the only attempt, and the call has raised.
C8_PermanentNotRetried ==
    \A k \in 1..Len(xfer.errors) :
        xfer.errors[k] \in {"permanent", "auth"} =>
            /\ k = 1
            /\ xfer.attempt = 1
            /\ xfer.pc = "raised"

(***************************************************************************)
(* The status channel behind the /ws endpoint.                             *)
(***************************************************************************)
\* the user whose session cookie a websocket carries when it opens /ws
SessionUser(websocket) == IF websocket = "ws1" THEN "1" ELSE "2"

\* C11: events are keyed by user: an event published for user u is delivered
\* to exactly the websocket connections u has open through /ws, all of them
\* and no connection of another user.
C11_DeliveredToItsUser ==
    [][ Len(events') > Len(events) =>
          \A w \in Sockets :
              (Registered(w) /\ SessionUser(w) = LastEvent.user_id)
                  <=> delivered'[w] = Append(delivered[w], LastEvent) ]_vars

(***************************************************************************)
(* send_personal_message step by step.  `await connection.send_json(...)`  *)
(* hands the frame to the connection's transport and resumes the caller    *)
(* when the transport has taken it, or raises; until then the coroutine    *)
(* that awaits it, a run of sync_job, is suspended.  sends[r] is the loop  *)
(* of run r: the list iterator of `for connection in                       *)
(* self.active_connections[user_id]` and the connection whose send_json is *)
(* pending.  The iterator holds the list object and an index: it sees the  *)
(* appends and removals made while it is suspended, and it is detached     *)
(* from the registry when disconnect deletes the key (the list is then     *)
(* empty, and a later connect makes a new list).                           *)
(***************************************************************************)
NewSend(message) ==
    [message |-> message, key |-> message.user_id, index |-> 1,
     connection |-> active_connections[message.user_id][1], detached |-> FALSE]

\* `await send_sync_status(...)`: the loop starts when the step published an
\* event and its user has a key; its first send_json is pending
SendBySteps ==
    /\ sends' = IF events' = events \/ LastEvent.user_id \notin DOMAIN active_connections
                THEN sends
                ELSE (LastEvent.run :> NewSend(LastEvent)) @@ sends
    /\ UNCHANGED <<active_connections, delivered, websockets>>

\* the list object the iterator of a loop holds
IteratedList(send) ==
    IF send.detached THEN <<>> ELSE active_connections[send.key]

\* the pending send_json of run r has ended: the frame is counted when it
\* returned; `except: pass` swallows whatever it raised; the iterator yields
\* the next connection, or the loop and send_sync_status are over
SendJsonEnded(r, returned) ==
    LET send == sends[r]
        connections == IteratedList(send)
    IN
    /\ delivered' = IF returned
                    THEN [delivered EXCEPT ![send.connection] = Append(@, send.message)]
                    ELSE delivered
    /\ sends' = IF send.index < Len(connections)
                THEN [sends EXCEPT ![r].index = @ + 1,
                                   ![r].connection = connections[send.index + 1]]
                ELSE [q \in DOMAIN sends \ {r} |-> sends[q]]

Unchanged_db ==
    UNCHANGED <<now, encryption_key_set, jobs, accounts, history,
                onedrive_files, gdrive_files, calls, xfer, others>>

\* the transport of the pending connection takes the frame, or fails
send_json(r, returned) ==
    /\ r \in DOMAIN sends
    /\ SendJsonEnded(r, returned)
    /\ UNCHANGED <<runs, events, active_connections, websockets>>
    /\ Unchanged_db

\* the task that runs sync_job is cancelled.  A run is suspended nowhere but
\* in a pending send_json, so CancelledError is raised there, inside the
\* `try`, and the bare `except: pass` swallows it like any other exception.
cancel(r) ==
    /\ r \in DOMAIN sends
    /\ runs[r].cancelled = <<>>
    /\ runs' = [runs EXCEPT ![r].cancelled = <<runs[r].pc>>]
    /\ SendJsonEnded(r, FALSE)
    /\ UNCHANGED <<events, active_connections, websockets>>
    /\ Unchanged_db

\* ConnectionManager.connect, called for a new websocket
connect_call(websocket, user_id) ==
    /\ websockets[websocket] = "new"
    /\ active_connections' = connect(websocket, user_id)
    /\ websockets' = [websockets EXCEPT ![websocket] = "open"]
    /\ UNCHANGED <<runs, events, sends, delivered>>
    /\ Unchanged_db

\* ConnectionManager.disconnect, called with the key the websocket is
\* registered under; the loops that iterate a deleted list are detached
disconnect_call(websocket, user_id) ==
    /\ user_id \in DOMAIN active_connections
    /\ \E i \in 1..Len(active_connections[user_id]) :
          active_connections[user_id][i] = websocket
    /\ active_connections' = disconnect(websocket, user_id)
    /\ sends' = [q \in DOMAIN sends |->
                    IF sends[q].key = user_id /\ user_id \notin DOMAIN active_connections'
                    THEN [sends[q] EXCEPT !.detached = TRUE]
                    ELSE sends[q]]
    /\ websockets' = [websockets EXCEPT ![websocket] = "closed"]
    /\ UNCHANGED <<runs, events, delivered>>
    /\ Unchanged_db

\* sync_job between its awaits, each await a loop of pending send_json calls
sync_job_begin_steps(job_id) ==
    /\ sync_job_begin_run(job_id)
    /\ SendBySteps

sync_job_resume_steps(r) ==
    /\ r \notin DOMAIN sends
    /\ sync_job_resume_run(r)
    /\ SendBySteps

sync_job_finish_steps(r) ==
    /\ r \notin DOMAIN sends
    /\ sync_job_finish(r)

NextDelivery ==
    \/ \E w \in Sockets, u \in UserKeys : connect_call(w, u)
    \/ \E w \in Sockets, u \in UserKeys : disconnect_call(w, u)
    \/ \E job_id \in JobIds : sync_job_begin_steps(job_id)
    \/ \E r \in 1..Len(runs) : sync_job_resume_steps(r)
    \/ \E r \in 1..Len(runs) : sync_job_finish_steps(r)
    \/ \E r \in 1..Len(runs), returned \in BOOLEAN : send_json(r, returned)
    \/ \E r \in 1..Len(runs) : cancel(r)

SpecDelivery == InitXfer /\ [][NextDelivery]_vars

\* C12: status delivery is fire-and-forget: a send that raises is swallowed
\* and the loop goes on to the user's other connections, and a run never
\* waits on a subscriber: whatever the connections do, a run that has not
\* ended can take its next step.
C12_FireAndForget ==
    \A r \in 1..Len(runs) :
        ~Finished(r) => ENABLED (sync_job_resume_steps(r) \/ sync_job_finish_steps(r))

\* C17: cancellation: a run that is cancelled while in progress starts no new
\* pass afterwards, and its record and the job's last_sync reflect only the
\* work completed before the cancellation: a run cancelled before its passes
\* executes none and does not end 'success'.
C17_Cancellation ==
    \A r \in 1..Len(runs) :
        runs[r].cancelled = <<"await_start">> =>
            /\ runs[r].passes = <<>>
            /\ RunRecord(r).status # "success"
            /\ jobs[runs[r].job_id].last_sync = NoTime

(***************************************************************************)
(* The sync-job routes (sync_jobs.py).  `user` is the caller that          *)
(* get_current_user resolved.  response keeps how the last request was     *)
(* answered.                                                               *)
(***************************************************************************)
\* SyncJobCreate.direction and SyncJobUpdate.direction are declared `str`:
\* the request body may carry any string
RequestDirections == Directions \cup {"sideways"}

Response(route, user, job_id, status) ==
    [route |-> route, user |-> user, job_id |-> job_id, status |-> status]

\* `.filter(ConnectedAccount.id == ..., ConnectedAccount.user_id == user.id,
\*          ConnectedAccount.platform == ...).first()`
OwnAccount(user, account_id, platform) ==
    /\ account_id \in DOMAIN accounts
    /\ accounts[account_id].user_id = user
    /\ accounts[account_id].platform = platform

\* a variant of the job filter that forgets the user
OwnJob_AnyUser(user, job_id) == job_id \in DOMAIN jobs

\* `.filter(SyncJob.id == job_id, SyncJob.user_id == user.id).first()`
OwnJob(user, job_id) ==
    job_id \in DOMAIN jobs /\ jobs[job_id].user_id = user

\* the id the database gives the next row of sync_jobs
NextJobId == IF DOMAIN jobs = {} THEN 1
             ELSE (CHOOSE j \in DOMAIN jobs : \A k \in DOMAIN jobs : k <= j) + 1

Unchanged_but_jobs ==
    UNCHANGED <<now, encryption_key_set, accounts, runs, events, active_connections,
                delivered, onedrive_files, gdrive_files, calls, xfer, sends,
                websockets, auth_flows, cli, registry_calls, ws_handlers>>

\* POST /sync-jobs/
create_sync_job(user, onedrive_account_id, gdrive_account_id, direction) ==
    /\ Cardinality(DOMAIN jobs) < MaxJobs
    /\ IF ~OwnAccount(user, onedrive_account_id, "onedrive")
          \/ ~OwnAccount(user, gdrive_account_id, "gdrive")
       THEN /\ response' = Response("create_sync_job", user, 0, 404)
            /\ UNCHANGED jobs
       ELSE /\ jobs' = [j \in DOMAIN jobs \cup {NextJobId} |->
                          IF j = NextJobId
                          THEN SyncJob(user, onedrive_account_id, gdrive_account_id,
                                       direction, TRUE)
                          ELSE jobs[j]]
            /\ response' = Response("create_sync_job", user, NextJobId, 201)
    /\ UNCHANGED history
    /\ Unchanged_but_jobs

\* PUT /sync-jobs/{job_id}: a field of the body that is None is left alone
\* (`enabled` is <<>> for None, else <<the flag>>)
update_sync_job(user, job_id, direction, enabled) ==
    /\ IF ~OwnJob(user, job_id)
       THEN /\ response' = Response("update_sync_job", user, job_id, 404)
            /\ UNCHANGED jobs
       ELSE /\ jobs' = [jobs EXCEPT
                          ![job_id].direction = IF direction # None THEN direction ELSE @,
                          ![job_id].enabled = IF enabled # <<>> THEN enabled[1] ELSE @]
            /\ response' = Response("update_sync_job", user, job_id, 200)
    /\ UNCHANGED history
    /\ Unchanged_but_jobs

\* DELETE /sync-jobs/{job_id}: the job goes, and its history with it
delete_sync_job(user, job_id) ==
    /\ IF ~OwnJob(user, job_id)
       THEN /\ response' = Response("delete_sync_job", user, job_id, 404)
            /\ UNCHANGED <<jobs, history>>
       ELSE /\ jobs' = [j \in DOMAIN jobs \ {job_id} |-> jobs[j]]
            /\ history' = SelectSeq(history, LAMBDA h : h.sync_job_id # job_id)
            /\ response' = Response("delete_sync_job", user, job_id, 200)
    /\ Unchanged_but_jobs

\* a variant of the trigger route that stamps the job it answers 200 for
trigger_sync_Stamping(user, job_id) ==
    /\ response' = Response("trigger_sync", user, job_id,
                            IF ~OwnJob(user, job_id) THEN 404
                            ELSE IF ~jobs[job_id].enabled THEN 400
                            ELSE 200)
    /\ jobs' = IF OwnJob(user, job_id) /\ jobs[job_id].enabled
               THEN [jobs EXCEPT ![job_id].last_sync = <<now>>]
               ELSE jobs
    /\ UNCHANGED history
    /\ Unchanged_but_jobs

\* POST /sync-jobs/{job_id}/trigger: answers, and triggers nothing
trigger_sync(user, job_id) ==
    /\ response' = Response("trigger_sync", user, job_id,
                            IF ~OwnJob(user, job_id) THEN 404
                            ELSE IF ~jobs[job_id].enabled THEN 400
                            ELSE 200)
    /\ UNCHANGED <<jobs, history>>
    /\ Unchanged_but_jobs

NextJobs ==
    \/ \E user \in UserIds, oa, ga \in 1..3, direction \in RequestDirections :
          create_sync_job(user, oa, ga, direction)
    \/ \E user \in UserIds, job_id \in 1..MaxJobs,
          direction \in RequestDirections \cup {None},
          enabled \in {<<>>, <<TRUE>>, <<FALSE>>} :
          update_sync_job(user, job_id, direction, enabled)
    \/ \E user \in UserIds, job_id \in 1..MaxJobs : delete_sync_job(user, job_id)
    \/ \E user \in UserIds, job_id \in 1..MaxJobs : trigger_sync(user, job_id)

SpecJobs == InitXfer /\ [][NextJobs]_vars

\* C13: the direction of a job that exists after any create_sync_job and
\* update_sync_job is one of 'bidirectional', 'onedrive_to_gdrive' and
\* 'gdrive_to_onedrive'.
C13_DirectionDomain ==
    \A j \in DOMAIN jobs : jobs[j].direction \in Directions

(***************************************************************************)
(* sync_job and the trigger route on jobs that are disabled or missing.    *)
(***************************************************************************)
InitTrigger ==
    /\ Init
    /\ encryption_key_set = TRUE
    /\ jobs[1].direction = "bidirectional"

NextTrigger ==
    \/ \E job_id \in JobIds, raising \in SUBSET Connected : sync_job_begin(job_id, raising)
    \/ \E r \in 1..Len(runs), raising \in SUBSET Connected : sync_job_resume(r, raising)
    \/ \E r \in 1..Len(runs) : sync_job_finish(r)
    \/ \E user \in UserIds, job_id \in JobIds : trigger_sync(user, job_id)
    \/ Tick

SpecTrigger == InitTrigger /\ [][NextTrigger]_vars

\* sync_job has just been called for job_id
Called(job_id) ==
    /\ Len(runs') = Len(runs) + 1
    /\ runs'[Len(runs')].job_id = job_id

\* trigger_sync has just answered
Answered == response' # response /\ response'.route = "trigger_sync"

\* C15: a disabled job is never run: sync_job called for a job that does not
\* exist or is not enabled returns at once, creates no record, publishes no
\* event and leaves last_sync as it was; the trigger route answers 400 for a
\* disabled job of the caller, and whatever it answers it changes no state.
C15_DisabledJobNeverRuns ==
    [][ /\ \A job_id \in JobIds :
              (Called(job_id) /\ (job_id \notin DOMAIN jobs \/ ~jobs[job_id].enabled)) =>
                  /\ runs'[Len(runs')].pc = "returned"
                  /\ history' = history
                  /\ events' = events
                  /\ delivered' = delivered
                  /\ jobs' = jobs
        /\ Answered =>
              /\ (/\ response'.job_id \in DOMAIN jobs
                  /\ jobs[response'.job_id].user_id = response'.user
                  /\ ~jobs[response'.job_id].enabled) <=> response'.status = 400
              /\ UNCHANGED <<jobs, accounts, history, runs, events, delivered,
                             onedrive_files, gdrive_files>> ]_vars

\* sync_job has returned on the disabled job, which has no record, and the
\* trigger route has answered its owner 400
C15_Witness ==
    /\ ~jobs[1].enabled
    /\ \E r \in 1..Len(runs) : runs[r].job_id = 1 /\ runs[r].pc = "returned"
    /\ history = <<>>
    /\ response = Response("trigger_sync", "1", 1, 400)

(***************************************************************************)
(* The dispatch on job.direction and the two passes.                       *)
(***************************************************************************)
\* run r has got past the account lookup to the dispatch
Dispatched(r) == Began(r) /\ runs[r].pc \in {"await_completed", "returned"}

\* C14: direction dispatch: a run (that reaches the dispatch) executes the
\* OneDrive -> Google Drive pass iff the direction is 'bidirectional' or
\* 'onedrive_to_gdrive' and the Google Drive -> OneDrive pass iff it is
\* 'bidirectional' or 'gdrive_to_onedrive'; when both run, the first has
\* completed before the second starts; files_synced and bytes_transferred of
\* the record are the sums over the passes executed.  A run that does not
\* reach the dispatch executes no pass.
C14_DirectionDispatch ==
    \A r \in 1..Len(runs) :
        LET direction == jobs[runs[r].job_id].direction
            passes == runs[r].passes
            executed == {passes[i] : i \in 1..Len(passes)}
            first == _sync_onedrive_to_gdrive(runs[r].onedrive_token, runs[r].gdrive_token,
                                              onedrive_files, gdrive_files)
            second == _sync_gdrive_to_onedrive(runs[r].gdrive_token, runs[r].onedrive_token,
                                               gdrive_files, onedrive_files)
        IN
        IF Dispatched(r)
        THEN /\ "onedrive_to_gdrive" \in executed
                   <=> direction \in {"bidirectional", "onedrive_to_gdrive"}
             /\ "gdrive_to_onedrive" \in executed
                   <=> direction \in {"bidirectional", "gdrive_to_onedrive"}
             /\ Len(passes) = Cardinality(executed)
             /\ Len(passes) = 2 => passes = <<"onedrive_to_gdrive", "gdrive_to_onedrive">>
             /\ RunRecord(r).files_synced =
                   (IF "onedrive_to_gdrive" \in executed THEN first.files ELSE 0)
                   + (IF "gdrive_to_onedrive" \in executed THEN second.files ELSE 0)
             /\ RunRecord(r).bytes_transferred =
                   (IF "onedrive_to_gdrive" \in executed THEN first.bytes ELSE 0)
                   + (IF "gdrive_to_onedrive" \in executed THEN second.bytes ELSE 0)
        ELSE passes = <<>>

\* a bidirectional run has executed both passes, in order, and returned
C14_Witness ==
    \E r \in 1..Len(runs) :
        /\ Dispatched(r)
        /\ runs[r].pc = "returned"
        /\ jobs[runs[r].job_id].direction = "bidirectional"
        /\ runs[r].passes = <<"onedrive_to_gdrive", "gdrive_to_onedrive">>

C16_PassesReportNothing ==
    /\ \A onedrive_token, gdrive_token \in {None, "at_onedrive", "at_gdrive"} :
          LET first == _sync_onedrive_to_gdrive(onedrive_token, gdrive_token,
                                                onedrive_files, gdrive_files)
              second == _sync_gdrive_to_onedrive(gdrive_token, onedrive_token,
                                                 gdrive_files, onedrive_files)
          IN
          /\ first.files = 0 /\ first.bytes = 0
          /\ second.files = 0 /\ second.bytes = 0
          /\ first.onedrive_files = onedrive_files /\ first.gdrive_files = gdrive_files
          /\ second.onedrive_files = onedrive_files /\ second.gdrive_files = gdrive_files
    /\ \A r \in 1..Len(runs) :
          (Began(r) /\ RunRecord(r).status = "success") =>
              /\ RunRecord(r).files_synced = 0
              /\ RunRecord(r).bytes_transferred = 0

C16_StoresUnchanged ==
    /\ onedrive_files' = onedrive_files
    /\ gdrive_files' = gdrive_files

\* C16: the passes are stubs: each returns 0 files and 0 bytes whatever the
\* tokens and reads and writes neither store, so every run that ends
\* 'success' records files_synced = 0 and bytes_transferred = 0, and no step
\* of a run changes the OneDrive or the Google Drive folder.
C16_PassesAreStubs == [](C16_PassesReportNothing) /\ [][C16_StoresUnchanged]_vars

\* a one-way run has ended 'success' with nothing counted, and the file on
\* OneDrive is still missing from Google Drive
C16_Witness ==
    \E r \in 1..Len(runs) :
        /\ Began(r) /\ runs[r].pc = "returned"
        /\ RunRecord(r).status = "success"
        /\ runs[r].passes = <<"onedrive_to_gdrive">>
        /\ RunRecord(r).files_synced = 0
        /\ onedrive_files # {} /\ gdrive_files = {}

(***************************************************************************)
(* The command line (src/main.py).  cli follows one invocation: the parsed *)
(* arguments, whether validation let it through, the engine method that    *)
(* was called and the exit status.                                         *)
(***************************************************************************)
Platforms == {"onedrive", "gdrive"}     \* choices=['onedrive', 'gdrive']

\* what --source and --target can be given on the command line; None: absent
PlatformArgs == {None} \cup Platforms \cup {"dropbox"}

FolderArgs == {None, "Documents"}

\* SyncEngine.__init__(self, db): called without db it raises TypeError
SyncEngine_init(db_given) == IF db_given THEN "engine" ELSE "TypeError"

\* the methods main calls on the engine; SyncEngine defines none of them
EngineMethods == {"sync_job", "_sync_onedrive_to_gdrive", "_sync_gdrive_to_onedrive",
                  "cleanup"}

Unchanged_but_cli ==
    UNCHANGED <<now, encryption_key_set, jobs, accounts, history, runs, events,
                active_connections, delivered, onedrive_files, gdrive_files,
                calls, xfer, sends, websockets, response, auth_flows,
                registry_calls, ws_handlers>>

\* parser.parse_args(): a platform outside the choices is an error (exit 2)
main_parse_args(bidirectional, source, target, folder) ==
    /\ cli.pc = "none"
    /\ cli' = [pc |-> IF {source, target} \subseteq Platforms \cup {None}
                      THEN "parsed" ELSE "exited",
               bidirectional |-> bidirectional, source |-> source,
               target |-> target, folder |-> folder,
               accepted |-> FALSE, called |-> None,
               exit |-> IF {source, target} \subseteq Platforms \cup {None}
                        THEN <<>> ELSE <<2>>]
    /\ Unchanged_but_cli

\* the two checks after parse_args; parser.error exits with status 2
main_validate ==
    /\ cli.pc = "parsed"
    /\ cli' = IF ~cli.bidirectional /\ (cli.source = None \/ cli.target = None)
              THEN [cli EXCEPT !.pc = "exited", !.exit = <<2>>]
              ELSE IF cli.source = cli.target
              THEN [cli EXCEPT !.pc = "exited", !.exit = <<2>>]
              ELSE [cli EXCEPT !.pc = "validated", !.accepted = TRUE]
    /\ Unchanged_but_cli

\* the try block: the engine is made and the method of the direction is
\* called; any exception is printed and the process exits with status 1
main_sync ==
    /\ cli.pc = "validated"
    /\ LET engine == SyncEngine_init(FALSE)
           method == IF cli.bidirectional THEN "bidirectional_sync"
                     ELSE IF cli.source = "onedrive" /\ cli.target = "gdrive"
                     THEN "sync_onedrive_to_gdrive"
                     ELSE "sync_gdrive_to_onedrive"
       IN
       cli' = IF engine = "TypeError"
              THEN [cli EXCEPT !.pc = "exited", !.exit = <<1>>]
              ELSE IF method \notin EngineMethods       \* AttributeError
              THEN [cli EXCEPT !.pc = "exited", !.exit = <<1>>]
              ELSE [cli EXCEPT !.pc = "exited", !.called = method, !.exit = <<0>>]
    /\ Unchanged_but_cli

NextCli ==
    \/ \E bidirectional \in BOOLEAN, source, target \in PlatformArgs, folder \in FolderArgs :
          main_parse_args(bidirectional, source, target, folder)
    \/ main_validate
    \/ main_sync

SpecCli == InitXfer /\ [][NextCli]_vars

\* the arguments parsed and main has run its two checks
CliDecided ==
    /\ cli.pc \in {"validated", "exited"}
    /\ {cli.source, cli.target} \subseteq Platforms \cup {None}

\* C18: an invocation is accepted by the validation exactly when
\* --bidirectional is given, or both --source and --target are given and name
\* different platforms; an invocation with only --bidirectional is accepted
\* and, when main has ended, the bidirectional sync has been called.
C18_CliValidation ==
    CliDecided =>
        /\ cli.accepted <=>
              \/ cli.bidirectional
              \/ /\ cli.source # None /\ cli.target # None
                 /\ cli.source # cli.target
        /\ (cli.pc = "exited" /\ cli.bidirectional
            /\ cli.source = None /\ cli.target = None) =>
              cli.called = "bidirectional_sync"

(***************************************************************************)
(* Linking a OneDrive account (accounts.py, azure_oauth.py).  auth_flows   *)
(* is AzureOAuth._auth_flows of the instance the account routes use: the   *)
(* flows get_authorization_url started, under the `state` MSAL gave them.  *)
(* The authorization code the user brings back from the auth_url of a flow *)
(* is modelled as <<state of that flow>>.                                  *)
(***************************************************************************)
MaxFlows == 2          \* authorization flows started

\* the states MSAL generates, in the order it hands them out
FlowStates == [i \in 1..MaxFlows |-> IF i = 1 THEN "state1" ELSE "state" \o ToString(i)]

\* the codes a request can carry: one per flow, and one Azure never issued
Codes == {<<FlowStates[i]>> : i \in 1..MaxFlows} \cup {<<"forged">>}

LinkResponse(route, user, code, state, status) ==
    [route |-> route, user |-> user, code |-> code, state |-> state, status |-> status]

\* AzureOAuth.acquire_token_by_code(code, state): the flow stored under
\* `state` is looked up; without it the call raises; with it the code is
\* exchanged, the flow is dropped, and the answer is the tokens or an error
acquire_token_by_code(code, state) ==
    IF state \notin DOMAIN auth_flows
    THEN [raised |-> "Auth flow not found", flows |-> auth_flows]
    ELSE [raised |-> IF code = <<state>> THEN None ELSE "Token acquisition failed",
          flows |-> [s \in DOMAIN auth_flows \ {state} |-> auth_flows[s]]]

Unchanged_but_accounts ==
    UNCHANGED <<now, encryption_key_set, jobs, history, runs, events,
                active_connections, delivered, onedrive_files, gdrive_files,
                calls, xfer, sends, websockets, cli, registry_calls,
                ws_handlers>>

\* GET /accounts/connect/onedrive/start: get_authorization_url() starts a
\* flow, stores it under its state and returns the auth_url and the state
start_onedrive_connection(user) ==
    /\ Cardinality(DOMAIN auth_flows) < MaxFlows
    /\ LET state == FlowStates[Cardinality(DOMAIN auth_flows) + 1] IN
       /\ auth_flows' = [s \in DOMAIN auth_flows \cup {state} |->
                            IF s = state THEN [state |-> state, started_by |-> user]
                            ELSE auth_flows[s]]
       /\ response' = LinkResponse("start_onedrive_connection", user, <<>>, state, 200)
    /\ UNCHANGED accounts
    /\ Unchanged_but_accounts

\* POST /accounts/connect/onedrive with {code}: the route calls
\* acquire_token_by_code(request.code), so `state` is its default, None.  On
\* success the user's OneDrive account is updated, or created; any exception
\* is answered 400.  (In the model a user consents with one Microsoft
\* identity, so the e-mail filter selects by user and platform.)
connect_onedrive(user, code) ==
    /\ LET token_result == acquire_token_by_code(code, None)
           existing == {a \in DOMAIN accounts : OwnAccount(user, a, "onedrive")}
           account == ConnectedAccount(user, "onedrive", "at_linked", "rt_linked",
                                       now, TokenLifetime)
           id == IF existing # {} THEN CHOOSE a \in existing : TRUE
                 ELSE IF DOMAIN accounts = {} THEN 1
                 ELSE (CHOOSE a \in DOMAIN accounts : \A b \in DOMAIN accounts : b <= a) + 1
       IN
       /\ auth_flows' = token_result.flows
       /\ IF token_result.raised # None
          THEN /\ response' = LinkResponse("connect_onedrive", user, code, None, 400)
               /\ UNCHANGED accounts
          ELSE /\ accounts' = [a \in DOMAIN accounts \cup {id} |->
                                  IF a = id THEN account ELSE accounts[a]]
               /\ response' = LinkResponse("connect_onedrive", user, code, None, 200)
    /\ Unchanged_but_accounts

NextLink ==
    \/ \E user \in UserIds : start_onedrive_connection(user)
    \/ \E user \in UserIds, code \in Codes : connect_onedrive(user, code)
    \/ \E a \in DOMAIN accounts, u \in UserIds : disconnect_account(a, u)
    \/ Tick

SpecLink == InitXfer /\ [][NextLink]_vars

\* C19: OneDrive account linking: a connect_onedrive request that carries the
\* code obtained from the auth_url of a flow that start_onedrive_connection
\* stored finds the flow, exchanges the code and creates or updates the
\* caller's OneDrive account (the request succeeds and the flow is redeemed,
\* gone from the store); a request with any other code fails.
C19_AccountLinking ==
    [][ (response' # response /\ response'.route = "connect_onedrive") =>
          LET code == response'.code
              user == response'.user
          IN
          IF code[1] \in DOMAIN auth_flows
          THEN /\ response'.status = 200
               /\ code[1] \notin DOMAIN auth_flows'
               /\ \E a \in DOMAIN accounts' :
                     /\ accounts'[a].user_id = user
                     /\ accounts'[a].platform = "onedrive"
                     /\ accounts'[a].token_expires_at = <<now + TokenLifetime>>
          ELSE /\ response'.status = 400
               /\ accounts' = accounts ]_vars

(***************************************************************************)
(* The byte ranges of a chunked upload.                                    *)
(***************************************************************************)
RECURSIVE SentBytes(_)
\* the bytes the PUT requests of `ranges` carried
SentBytes(ranges) ==
    IF ranges = <<>> THEN 0
    ELSE (Head(ranges).last - Head(ranges).first + 1) + SentBytes(Tail(ranges))

Retried ==
    /\ xfer.attempt >= 1
    /\ xfer'.attempt = xfer.attempt + 1
    /\ xfer.done \in 1..(xfer.file_size - 1)

\* C21: transfers are resumable: when an attempt of a download or an upload
\* fails after k bytes have been transferred, the next attempt continues from
\* byte offset k instead of transferring the file again from byte 0.
C21_Resumable ==
    [][ Retried => xfer'.done = xfer.done ]_vars

(***************************************************************************)
(* Who writes job.last_sync: runs that succeed, runs that fail because an  *)
(* account is gone, calls that return early, and the trigger route.        *)
(***************************************************************************)
NextLastSync ==
    \/ NextTrigger
    \/ \E a \in DOMAIN accounts, u \in UserIds : disconnect_account(a, u)

SpecLastSync == InitTrigger /\ [][NextLastSync]_vars

\* run r has just committed its record as 'success'
Succeeded(r) ==
    /\ runs[r].pc = "await_start"
    /\ runs'[r].pc = "await_completed"
    /\ history'[runs[r].history].status = "success"

\* run r has just committed its record as 'failed'
Failed(r) ==
    /\ runs[r].pc = "await_start"
    /\ runs'[r].pc = "await_failed"
    /\ history'[runs[r].history].status = "failed"

\* C22: job.last_sync is written only by a run that ends with status
\* 'success': a step that changes the last_sync of a job is the step in which
\* a run of that job commits 'success' (and that run's record stays
\* 'success'); a run that ends 'failed', a call of sync_job that returns
\* early and the trigger route leave every last_sync as it was.
C22_LastSyncWriters ==
    [][ /\ \A j \in DOMAIN jobs :
              (j \in DOMAIN jobs' /\ jobs'[j].last_sync # jobs[j].last_sync) =>
                  \E r \in 1..Len(runs) : runs[r].job_id = j /\ Succeeded(r)
        /\ \A r \in 1..Len(runs) : Failed(r) => jobs' = jobs
        /\ \A job_id \in JobIds :
              (Called(job_id) /\ runs'[Len(runs')].pc = "returned") => jobs' = jobs
        /\ Answered => jobs' = jobs
        /\ \A r \in 1..Len(runs) :
              (Began(r) /\ runs[r].pc \in {"await_completed", "returned"}) =>
                  history'[runs[r].history].status = "success" ]_vars

\* a run succeeded and stamped the job; later a run of the same job failed
\* and the trigger route answered, and the stamp is still the first run's
C22_Witness ==
    /\ now = 1
    /\ jobs[1].last_sync = <<0>>
    /\ \E r, q \in 1..Len(runs) :
          /\ Began(r) /\ runs[r].pc = "returned" /\ RunRecord(r).status = "success"
          /\ Began(q) /\ runs[q].pc = "raised" /\ RunRecord(q).status = "failed"
          /\ RunRecord(q).completed_at = <<1>>
    /\ response.route = "trigger_sync"

(***************************************************************************)
(* The sync-job routes called by two users, each with both accounts        *)
(* connected.  The first user has a job that has run once.                 *)
(***************************************************************************)
InitOwnership ==
    /\ now = 0
    /\ encryption_key_set = TRUE
    /\ accounts = (1 :> ConnectedAccount("1", "onedrive", "at_onedrive", "rt_onedrive", 0, TokenLifetime)
                   @@ 2 :> ConnectedAccount("1", "gdrive", "at_gdrive", "rt_gdrive", 0, TokenLifetime)
                   @@ 3 :> ConnectedAccount("2", "onedrive", "at_onedrive", "rt_onedrive", 0, TokenLifetime)
                   @@ 4 :> ConnectedAccount("2", "gdrive", "at_gdrive", "rt_gdrive", 0, TokenLifetime))
    /\ jobs = (1 :> [SyncJob("1", 1, 2, "bidirectional", TRUE) EXCEPT !.last_sync = <<0>>])
    /\ history = <<SucceedHistory(SyncHistory(1, 0), 0, 0, 0)>>
    /\ onedrive_files = {[name |-> "report.txt", content |-> "h1"]}
    /\ gdrive_files = {}
    /\ runs = <<>>
    /\ events = <<>>
    /\ active_connections = <<>>
    /\ delivered = [w \in Sockets |-> <<>>]
    /\ calls = <<>>
    /\ xfer = NoXfer
    /\ sends = <<>>
    /\ websockets = [w \in Sockets |-> "new"]
    /\ response = NoResponse
    /\ auth_flows = <<>>
    /\ cli = NoCli
    /\ registry_calls = <<>>
    /\ ws_handlers = [w \in Sockets |-> NoHandler]

\* GET /sync-jobs/: the rows whose user_id is the caller's
list_sync_jobs(user) ==
    /\ response' = [route |-> "list_sync_jobs", user |-> user, job_id |-> 0,
                    status |-> 200,
                    body |-> {j \in DOMAIN jobs : jobs[j].user_id = user}]
    /\ UNCHANGED <<jobs, history>>
    /\ Unchanged_but_jobs

\* GET /sync-jobs/{job_id}
get_sync_job(user, job_id) ==
    /\ response' = Response("get_sync_job", user, job_id,
                            IF ~OwnJob(user, job_id) THEN 404 ELSE 200)
    /\ UNCHANGED <<jobs, history>>
    /\ Unchanged_but_jobs

\* the ids a request can name: those of the rows there can be, and one more
RequestJobIds == 1..(MaxJobs + 1)

\* the requests differ in the caller, the job and the accounts they name; the
\* bodies are one create body and two update bodies
NextOwnership ==
    \/ \E user \in UserIds, oa, ga \in 1..5 :
          /\ NextJobId \in RequestJobIds
          /\ create_sync_job(user, oa, ga, "bidirectional")
    \/ \E user \in UserIds, job_id \in RequestJobIds,
          direction \in {None, "gdrive_to_onedrive"} :
          update_sync_job(user, job_id, direction, <<>>)
    \/ \E user \in UserIds, job_id \in RequestJobIds : delete_sync_job(user, job_id)
    \/ \E user \in UserIds, job_id \in RequestJobIds : trigger_sync(user, job_id)
    \/ \E user \in UserIds, job_id \in RequestJobIds : get_sync_job(user, job_id)
    \/ \E user \in UserIds : list_sync_jobs(user)

SpecOwnership == InitOwnership /\ [][NextOwnership]_vars

\* a route has just answered
AnsweredBy(routes) == response' # response /\ response'.route \in routes

\* C23: job ownership isolation: get_sync_job, update_sync_job,
\* delete_sync_job and trigger_sync called by user u on a job of another user
\* (or on no job) answer 404 and change no state; list_sync_jobs returns
\* exactly the jobs whose user_id is u; create_sync_job stores a job only when
\* both accounts it names belong to u and have the matching platform, the job
\* is then u's, and otherwise it answers 404 and stores nothing.  No request
\* of u changes or removes a job or a record of a job of another user.
C23_JobOwnershipIsolation ==
    [][ LET u == response'.user
            id == response'.job_id
        IN
        /\ AnsweredBy({"get_sync_job", "update_sync_job", "delete_sync_job",
                       "trigger_sync"}) =>
              /\ (id \notin DOMAIN jobs \/ jobs[id].user_id # u) =>
                    /\ response'.status = 404
                    /\ UNCHANGED <<jobs, accounts, history>>
              /\ (id \in DOMAIN jobs /\ jobs[id].user_id = u) =>
                    response'.status # 404
        /\ AnsweredBy({"list_sync_jobs"}) =>
              /\ response'.body = {j \in DOMAIN jobs : jobs[j].user_id = u}
              /\ UNCHANGED <<jobs, accounts, history>>
        /\ AnsweredBy({"create_sync_job"}) =>
              IF response'.status = 201
              THEN /\ id \notin DOMAIN jobs
                   /\ DOMAIN jobs' = DOMAIN jobs \cup {id}
                   /\ jobs'[id].user_id = u
                   /\ OwnAccount(u, jobs'[id].onedrive_account_id, "onedrive")
                   /\ OwnAccount(u, jobs'[id].gdrive_account_id, "gdrive")
              ELSE /\ response'.status = 404
                   /\ jobs' = jobs
        /\ AnsweredBy({"get_sync_job", "update_sync_job", "delete_sync_job",
                       "trigger_sync", "list_sync_jobs", "create_sync_job"}) =>
              /\ \A j \in DOMAIN jobs :
                    jobs[j].user_id # u => (j \in DOMAIN jobs' /\ jobs'[j] = jobs[j])
              /\ SelectSeq(history', LAMBDA h : h.sync_job_id \notin DOMAIN jobs
                                                \/ jobs[h.sync_job_id].user_id # u)
                 = SelectSeq(history, LAMBDA h : h.sync_job_id \notin DOMAIN jobs
                                               \/ jobs[h.sync_job_id].user_id # u)
    ]_vars

\* the second user has a job of their own and has just been answered 404 for
\* a request on the first user's job, which is as it was, record included
C23_Witness ==
    /\ response.user = "2"
    /\ response.route \in {"update_sync_job", "delete_sync_job"}
    /\ response.job_id = 1
    /\ response.status = 404
    /\ 1 \in DOMAIN jobs /\ jobs[1].user_id = "1"
    /\ \E i \in 1..Len(history) : history[i].sync_job_id = 1
    /\ \E j \in DOMAIN jobs : jobs[j].user_id = "2"

(***************************************************************************)
(* The job routes together with the account routes, on one database.       *)
(* sync_jobs.onedrive_account_id and gdrive_account_id are foreign keys    *)
(* without ondelete and ConnectedAccount has no relationship to its jobs:  *)
(* on the default SQLite database, which does not enforce foreign keys,    *)
(* deleting an account leaves the jobs that name it as they are.           *)
(***************************************************************************)
NextIntegrity ==
    \/ \E user \in UserIds, oa, ga \in 1..3 :
          create_sync_job(user, oa, ga, "bidirectional")
    \/ \E user \in UserIds, job_id \in 1..MaxJobs,
          direction \in {None, "gdrive_to_onedrive"}, enabled \in {<<>>, <<FALSE>>} :
          update_sync_job(user, job_id, direction, enabled)
    \/ \E user \in UserIds, job_id \in 1..MaxJobs : delete_sync_job(user, job_id)
    \/ \E user \in UserIds : start_onedrive_connection(user)
    \/ \E user \in UserIds, code \in Codes : connect_onedrive(user, code)
    \/ \E a \in DOMAIN accounts, u \in UserIds : disconnect_account(a, u)

SpecIntegrity == InitXfer /\ [][NextIntegrity]_vars

\* C24: referential integrity of jobs: after any sequence of
\* create_sync_job, update_sync_job, delete_sync_job, connect and
\* disconnect_account calls, every stored job references an existing OneDrive
\* account and an existing Google Drive account of the job's own user (so the
\* account lookup of a run finds both).
C24_ReferentialIntegrity ==
    \A j \in DOMAIN jobs :
        /\ OwnAccount(jobs[j].user_id, jobs[j].onedrive_account_id, "onedrive")
        /\ OwnAccount(jobs[j].user_id, jobs[j].gdrive_account_id, "gdrive")
        /\ AccountsFound(jobs[j])

(***************************************************************************)
(* ConnectionManager.connect and disconnect called in any order, with any  *)
(* websocket and any user.  registry_calls keeps each call: what it was    *)
(* called with, whether the user had an entry when it was called, and how  *)
(* it ended.  `await websocket.accept()` in connect can raise (the client   *)
(* is gone, or the websocket was accepted before); connect then registers  *)
(* nothing.  list.remove raises ValueError when the websocket is not in    *)
(* the user's list, before anything is changed.                            *)
(***************************************************************************)
RegistryCall(op, websocket, user_id, outcome) ==
    [op |-> op, websocket |-> websocket, user_id |-> user_id,
     had_entry |-> user_id \in DOMAIN active_connections, outcome |-> outcome]

RECURSIVE Occurrences(_, _)
\* list.count
Occurrences(list, x) ==
    IF list = <<>> THEN 0
    ELSE (IF Head(list) = x THEN 1 ELSE 0) + Occurrences(Tail(list), x)

\* how many times a websocket is listed under a user
Listed(websocket, user_id) ==
    IF user_id \in DOMAIN active_connections
    THEN Occurrences(active_connections[user_id], websocket)
    ELSE 0

Unchanged_but_registry ==
    UNCHANGED <<now, encryption_key_set, jobs, accounts, history, runs, events,
                delivered, onedrive_files, gdrive_files, calls, xfer, sends,
                websockets, response, auth_flows, cli, ws_handlers>>

ConnectionManager_connect(websocket, user_id, accepted) ==
    /\ Len(registry_calls) < MaxRegistryCalls
    /\ active_connections' = IF accepted THEN connect(websocket, user_id)
                             ELSE active_connections
    /\ registry_calls' = Append(registry_calls,
                            RegistryCall("connect", websocket, user_id,
                                         IF accepted THEN "returned" ELSE "raised"))
    /\ Unchanged_but_registry

ConnectionManager_disconnect(websocket, user_id) ==
    /\ Len(registry_calls) < MaxRegistryCalls
    /\ active_connections' = disconnect(websocket, user_id)
    /\ registry_calls' = Append(registry_calls,
                            RegistryCall("disconnect", websocket, user_id,
                                         IF Listed(websocket, user_id) = 0
                                            /\ user_id \in DOMAIN active_connections
                                         THEN "ValueError" ELSE "returned"))
    /\ Unchanged_but_registry

NextRegistry ==
    \/ \E w \in Sockets, u \in UserIds, accepted \in BOOLEAN :
          ConnectionManager_connect(w, u, accepted)
    \/ \E w \in Sockets, u \in UserIds : ConnectionManager_disconnect(w, u)

SpecRegistry == InitXfer /\ [][NextRegistry]_vars

\* the calls of the log with an operation, a websocket and a user, among
\* those that ended with one of `outcomes`
CallsOf(op, websocket, user_id, outcomes) ==
    {i \in 1..Len(registry_calls) :
        /\ registry_calls[i].op = op
        /\ registry_calls[i].websocket = websocket
        /\ registry_calls[i].user_id = user_id
        /\ registry_calls[i].outcome \in outcomes}

Connected_for(websocket, user_id) ==
    Cardinality(CallsOf("connect", websocket, user_id, {"returned"}))

Disconnected_for(websocket, user_id) ==
    Cardinality(CallsOf("disconnect", websocket, user_id, {"returned", "ValueError"}))

\* the disconnect calls that found the user's entry and the websocket in it
Removed_for(websocket, user_id) ==
    Cardinality({i \in CallsOf("disconnect", websocket, user_id, {"returned"}) :
                    registry_calls[i].had_entry})

NoEmptyList ==
    \A u \in DOMAIN active_connections : active_connections[u] # <<>>

\* C25, as stated: after any sequence of connect and disconnect calls no user
\* key is mapped to an empty list, and a websocket is listed under user u
\* exactly as many times as it was connected for u minus the times it was
\* disconnected for u.
C25_RegistryCounts ==
    /\ NoEmptyList
    /\ \A w \in Sockets, u \in UserIds :
          Listed(w, u) = Connected_for(w, u) - Disconnected_for(w, u)

\* the last call was a disconnect that removed nothing
DisconnectedNothing ==
    /\ Len(registry_calls') = Len(registry_calls) + 1
    /\ LET c == registry_calls'[Len(registry_calls')] IN
       /\ c.op = "disconnect"
       /\ (~c.had_entry \/ c.outcome = "ValueError")

C25_Invariant ==
    /\ NoEmptyList
    /\ \A w \in Sockets, u \in UserIds :
          Listed(w, u) = Connected_for(w, u) - Removed_for(w, u)
    /\ \A i \in 1..Len(registry_calls) :
          ~registry_calls[i].had_entry => registry_calls[i].outcome # "ValueError"

\* C25, amended: no user key is mapped to an empty list; a websocket is
\* listed under user u exactly as many times as connect returned for it and u
\* minus the number of disconnect calls for it and u that found it listed; a
\* disconnect for a user with no entry returns and is a no-op; a disconnect
\* of a websocket that is not in the list of a user who has an entry raises
\* ValueError and changes nothing.
C25_RegistryInvariant ==
    [](C25_Invariant)
    /\ [][DisconnectedNothing => active_connections' = active_connections]_vars

\* a websocket is listed twice under a user, after a disconnect for that user
\* when they had no entry and a disconnect of a websocket not in their list
C25_Witness ==
    /\ Listed("ws1", "1") = 2
    /\ \E i, j \in 1..Len(registry_calls) :
          /\ registry_calls[i].op = "disconnect" /\ ~registry_calls[i].had_entry
          /\ registry_calls[i].user_id = "1"
          /\ registry_calls[j].op = "disconnect" /\ registry_calls[j].outcome = "ValueError"
          /\ registry_calls[j].user_id = "1"

(***************************************************************************)
(* websocket_endpoint (/ws) step by step.  ws_handlers[w] follows the      *)
(* handler of websocket w: whether the request carried a session cookie,   *)
(* how many times websocket.accept() was called, whether manager.connect   *)
(* registered it, how many times manager.disconnect was called, and what   *)
(* ended the handler.  The handler accepts at its first line, and          *)
(* manager.connect accepts again; whether the second accept passes or      *)
(* raises RuntimeError is the ASGI toolkit's affair.  The handler catches  *)
(* WebSocketDisconnect and nothing else.                                   *)
(***************************************************************************)
Unchanged_but_handlers ==
    UNCHANGED <<now, encryption_key_set, jobs, accounts, history, runs, events,
                delivered, onedrive_files, gdrive_files, calls, xfer, sends,
                websockets, response, auth_flows, cli, registry_calls>>

\* a client opens /ws: `await websocket.accept()`
ws_accept(w, cookie) ==
    /\ ws_handlers[w].pc = "none"
    /\ ws_handlers' = [ws_handlers EXCEPT ![w].pc = "accepted", ![w].cookie = cookie,
                                          ![w].accepts = 1]
    /\ UNCHANGED active_connections
    /\ Unchanged_but_handlers

\* the cookie check.  Without a cookie the error frame is sent and the
\* handler returns; when that send raises WebSocketDisconnect the except
\* clause reads user_id, which is not bound yet (UnboundLocalError), and
\* any other error leaves the handler as it is.  With a cookie user_id is
\* set and manager.connect accepts again and registers.
ws_check(w, outcome) ==
    /\ ws_handlers[w].pc = "accepted"
    /\ IF ~ws_handlers[w].cookie
       THEN /\ outcome \in {"sent", "WebSocketDisconnect", "error"}
            /\ ws_handlers' = [ws_handlers EXCEPT
                  ![w].pc = "ended",
                  ![w].ended_by = CASE outcome = "sent" -> "return"
                                    [] outcome = "WebSocketDisconnect" -> "UnboundLocalError"
                                    [] OTHER -> "error"]
            /\ UNCHANGED active_connections
       ELSE /\ outcome \in {"accepted", "RuntimeError"}
            /\ IF outcome = "accepted"
               THEN /\ active_connections' = connect(w, EndpointUserId)
                    /\ ws_handlers' = [ws_handlers EXCEPT ![w].pc = "receiving",
                                          ![w].accepts = @ + 1, ![w].registered = TRUE]
               ELSE /\ ws_handlers' = [ws_handlers EXCEPT ![w].pc = "ended",
                                          ![w].accepts = @ + 1,
                                          ![w].ended_by = "RuntimeError"]
                    /\ UNCHANGED active_connections
    /\ Unchanged_but_handlers

\* one round of the loop: a text frame is received and the pong is sent; or
\* receive_text or send_json raises WebSocketDisconnect and the except clause
\* deregisters; or one of them raises something else (a binary frame makes
\* receive_text raise KeyError), which nothing catches
ws_receive(w, outcome) ==
    /\ ws_handlers[w].pc = "receiving"
    /\ CASE outcome = "pong" ->
              UNCHANGED <<ws_handlers, active_connections>>
         [] outcome = "WebSocketDisconnect" ->
              /\ active_connections' = disconnect(w, EndpointUserId)
              /\ ws_handlers' = [ws_handlers EXCEPT ![w].pc = "ended",
                                    ![w].disconnects = @ + 1,
                                    ![w].ended_by = "WebSocketDisconnect"]
         [] OTHER ->
              /\ ws_handlers' = [ws_handlers EXCEPT ![w].pc = "ended",
                                    ![w].ended_by = "error"]
              /\ UNCHANGED active_connections
    /\ Unchanged_but_handlers

NextHandshake ==
    \/ \E w \in Sockets, cookie \in BOOLEAN : ws_accept(w, cookie)
    \/ \E w \in Sockets,
          outcome \in {"sent", "WebSocketDisconnect", "error", "accepted", "RuntimeError"} :
          ws_check(w, outcome)
    \/ \E w \in Sockets, outcome \in {"pong", "WebSocketDisconnect", "error"} :
          ws_receive(w, outcome)

SpecHandshake == InitXfer /\ [][NextHandshake]_vars

\* C26: handshake order in /ws: each websocket is accepted exactly once; it
\* is registered only after the session-cookie check passed; every websocket
\* that was registered is deregistered when its handler has ended, by
\* disconnect or by any other error; a handler that ends before registration
\* never calls disconnect.
C26_HandshakeOrder ==
    \A w \in Sockets :
        LET h == ws_handlers[w] IN
        /\ h.accepts <= 1
        /\ h.pc # "none" => h.accepts = 1
        /\ Registered(w) => (h.cookie /\ h.registered)
        /\ h.pc = "ended" => ~Registered(w)
        /\ (h.pc = "ended" /\ ~h.registered) => h.disconnects = 0

(***************************************************************************)
(* A send of send_personal_message while the registry changes.  One run of *)
(* the job publishes its events to the job's user, who has up to three     *)
(* connections; every transport takes its frame, so a connection that the  *)
(* loop reaches receives the message.  Connections are opened between      *)
(* sends, so a connection that is listed when a send ends was listed       *)
(* during the whole send; a connection is closed at any time but while its *)
(* own send_json is pending, so every change of the registry during a send *)
(* is the disconnect of another websocket.                                 *)
(***************************************************************************)
SendSockets == Sockets \cup {"ws3"}

InitSend ==
    /\ InitDb
    /\ encryption_key_set = TRUE
    /\ jobs[1].direction = "bidirectional"
    /\ jobs[1].enabled
    /\ runs = <<>>
    /\ events = <<>>
    /\ active_connections = <<>>
    /\ delivered = [w \in SendSockets |-> <<>>]
    /\ calls = <<>>
    /\ xfer = NoXfer
    /\ sends = <<>>
    /\ websockets = [w \in SendSockets |-> "new"]
    /\ response = NoResponse
    /\ auth_flows = <<>>
    /\ cli = NoCli
    /\ registry_calls = <<>>
    /\ ws_handlers = [w \in Sockets |-> NoHandler]

NextSend ==
    \/ \E w \in SendSockets :
          /\ DOMAIN sends = {}
          /\ connect_call(w, jobs[1].user_id)
    \/ \E w \in SendSockets :
          /\ \A r \in DOMAIN sends : sends[r].connection # w
          /\ disconnect_call(w, jobs[1].user_id)
    \/ /\ runs = <<>>
       /\ sync_job_begin_steps(1)
    \/ \E r \in 1..Len(runs) : sync_job_resume_steps(r)
    \/ \E r \in 1..Len(runs) : sync_job_finish_steps(r)
    \/ \E r \in 1..Len(runs) : send_json(r, TRUE)

SpecSend == InitSend /\ [][NextSend]_vars

\* the send of run r has just finished
SendFinished(r) == r \in DOMAIN sends /\ r \notin DOMAIN sends'

\* C27: sends are safe against concurrent registry changes: when a disconnect
\* (or connect) of another websocket interleaves with a send that is
\* suspended in `await send_json`, the send finishes without raising and
\* every connection that is registered for the addressed user during the
\* whole send has received the message exactly once.
C27_SendReachesEveryConnection ==
    [][ \A r \in 1..Len(runs) :
          SendFinished(r) =>
              \A w \in SendSockets :
                  Listed(w, sends[r].key) > 0 /\ websockets'[w] = "open"
                      => Occurrences(delivered'[w], sends[r].message) = 1 ]_vars

(***************************************************************************)
(* The tokens a run reads against the tokens the routes stored.            *)
(***************************************************************************)
\* the TokenManager instances of the process: the module-level ones of
\* auth.py and accounts.py, which encrypt, and the global one, which decrypts
StoringInstances == {"auth", "accounts"}

\* C28: token round-trip across modules: a non-empty token that an auth or
\* account route stored with encrypt_token is decrypted by sync_job to
\* exactly that token, whether or not ENCRYPTION_KEY is set (every
\* TokenManager instance of the process uses the same key); encrypt_token
\* and decrypt_token return None for an empty input.
C28_TokenRoundTrip ==
    /\ \A r \in 1..Len(runs) :
          runs[r].tokens_at # NoTime =>
              /\ runs[r].onedrive_token = "at_onedrive"
              /\ runs[r].gdrive_token = "at_gdrive"
              /\ \A instance \in StoringInstances :
                    ManagerKey(instance) = ManagerKey("global")
    /\ \A instance \in StoringInstances \cup {"global"} :
          /\ encrypt_token(instance, "") = NoneCt
          /\ encrypt_token(instance, None) = NoneCt
          /\ decrypt_token(instance, NoneCt) = None

====
